---- MODULE Spec2Model ----
(***************************************************************************)
(* Model of the mutation-accumulation risk model (src/src/models.py), of   *)
(* the age-group label parsers (src/src/utils.py), of the fit statistics   *)
(* (src/src/visualization.py) and of the table preparation and the curve   *)
(* extractors (src/src/data_loader.py, src/src/models.py).                 *)
(*                                                                         *)
(* Numbers.  The program computes in binary64.  Here a real number x is    *)
(* the integer floor(x * SCALE): decimal fixed point with four fractional  *)
(* digits, and every multiplication, division, square root and exponential *)
(* rounds down to that grid.  Trial counts, thresholds (k, C) and the      *)
(* clone count M that the program uses as integers are plain integers.     *)
(* Rounding effects of binary64 below the grid are outside the model.      *)
(***************************************************************************)
EXTENDS Integers, Sequences, FiniteSets, TLC

VARIABLES
    p,                    \* self.p
    M,                    \* self.M
    divisions_per_year,   \* self.divisions_per_year
    C,                    \* self.C
    r,                    \* self.r
    ctor,                 \* the five arguments the constructor was called with
    scipy,                \* whether `from scipy.stats import poisson` succeeds
    predicted,            \* whether predict or predict_scaled has been called
    call,                 \* the operation in progress, with its arguments
    ret                   \* what that operation returned

vars == <<p, M, divisions_per_year, C, r, ctor, scipy, predicted, call, ret>>

----------------------------------------------------------------------------
(* Bounds of the model.                                                    *)

MaxLen == 2          \* longest ages sequence
MaxAgeHalves == 4    \* ages are 0, 0.5, ..., MaxAgeHalves / 2 years
MaxM == 2            \* clone counts 1..MaxM
MaxC == 3            \* clonal thresholds 1..MaxC
MaxPDen == 4         \* p is 1/2, ..., 1/MaxPDen
FracBits == 4        \* binary digits of a fractional exponent that are used
ExpTerms == 12       \* terms of the exponential series

----------------------------------------------------------------------------
(* Fixed-point arithmetic.                                                 *)

SCALE == 100 * 100

One == SCALE

\* floor(a * b / SCALE), split so that no intermediate product overflows.
MulFx(a, b) == (a \div SCALE) * b + ((a % SCALE) * b) \div SCALE

\* floor(a * SCALE / b)
DivFx(a, b) == (a * SCALE) \div b

\* floor(sqrt(x)) on the grid, for 0 <= x <= One, by bisection.
RECURSIVE SqrtBisect(_, _, _)
SqrtBisect(lo, hi, t) ==
    IF hi - lo <= 1 THEN lo
    ELSE LET mid == (lo + hi) \div 2
         IN  IF mid * mid <= t THEN SqrtBisect(mid, hi, t)
             ELSE SqrtBisect(lo, mid, t)

SqrtFx(x) == SqrtBisect(0, SCALE + 1, x * SCALE)

\* x ** m for an integer m >= 0 (x ** 0 = 1, also for x = 0).
RECURSIVE IntPow(_, _)
IntPow(x, m) == IF m = 0 THEN One ELSE MulFx(IntPow(x, m - 1), x)

\* x ** f for a fraction 0 <= f < 1, from the binary digits of f.
RECURSIVE FracPow(_, _, _)
FracPow(x, f, bits) ==
    IF f = 0 \/ bits = 0 THEN One
    ELSE LET root == SqrtFx(x)
         IN  IF 2 * f >= SCALE
             THEN MulFx(root, FracPow(root, 2 * f - SCALE, bits - 1))
             ELSE FracPow(root, 2 * f, bits - 1)

\* x ** n for 0 <= x <= 1 and a real exponent n >= 0.
PowFx(x, n) == MulFx(IntPow(x, n \div SCALE), FracPow(x, n % SCALE, FracBits))

\* sum_{i=0}^{terms} x^i / i!, the series of e^x.
RECURSIVE ExpSeries(_, _, _, _)
ExpSeries(x, i, term, terms) ==
    IF i > terms THEN 0
    ELSE term + ExpSeries(x, i + 1, MulFx(term, x) \div (i + 1), terms)

\* np.exp(-x) for x >= 0.
RECURSIVE ExpNeg(_)
ExpNeg(x) ==
    IF x > 2 * SCALE
    THEN LET h == ExpNeg(x \div 2) IN MulFx(h, h)
    ELSE DivFx(One, ExpSeries(x, 0, One, ExpTerms))

----------------------------------------------------------------------------
(* MutationAccumulationModel.                                              *)

\* int(n): truncation toward zero, as an integer.
IntTrunc(n) == IF n >= 0 THEN n \div SCALE ELSE -((-n) \div SCALE)

\* lambda_poisson < 1e-10.  A grid value lam stands for lam / SCALE, and
\* SCALE < 10^10, so only values lam <= 0 are below the threshold.
LambdaNegligible(lam) == lam <= 0

\* The manual loop: for i in range(k), with factorial, lambda_power and
\* prob_sum carried from one iteration to the next.
RECURSIVE ManualPoissonLoop(_, _, _, _, _, _, _)
ManualPoissonLoop(i, k, lam, exp_neg_lambda, factorial, lambda_power, prob_sum) ==
    IF i >= k THEN prob_sum
    ELSE LET f  == IF i > 0 THEN factorial * i ELSE factorial
             lp == IF i > 0 THEN MulFx(lambda_power, lam) ELSE lambda_power
         IN  ManualPoissonLoop(i + 1, k, lam, exp_neg_lambda, f, lp,
                               prob_sum + (MulFx(exp_neg_lambda, lp) \div f))

ManualPoissonCdf(k, lam) == ManualPoissonLoop(0, k, lam, ExpNeg(lam), 1, One, 0)

\* scipy.stats.poisson.cdf(j, lam) = e^-lam * sum_{i=0}^{j} lam^i / i!
RECURSIVE PoissonPolynomial(_, _, _, _)
PoissonPolynomial(i, j, lam, term) ==
    IF i > j THEN 0
    ELSE term + PoissonPolynomial(i + 1, j, lam, MulFx(term, lam) \div (i + 1))

ScipyPoissonCdf(j, lam) == MulFx(ExpNeg(lam), PoissonPolynomial(0, j, lam, One))

\* Variant: the unreachable-threshold branch returns 1.0 instead of 0.0.
binomial_probability_one(n, k, pp) ==
    IF k = 1 THEN One - PowFx(One - pp, n)
    ELSE IF k * SCALE > n THEN One
    ELSE LET lambda_poisson == MulFx(n, pp)
         IN  IF LambdaNegligible(lambda_poisson) THEN 0
             ELSE IF scipy THEN One - ScipyPoissonCdf(k - 1, lambda_poisson)
             ELSE One - ManualPoissonCdf(k, lambda_poisson)

\* Variant: no unreachable-threshold branch at all.
binomial_probability_nocheck(n, k, pp) ==
    IF k = 1 THEN One - PowFx(One - pp, n)
    ELSE LET lambda_poisson == MulFx(n, pp)
         IN  IF LambdaNegligible(lambda_poisson) THEN 0
             ELSE IF scipy THEN One - ScipyPoissonCdf(k - 1, lambda_poisson)
             ELSE One - ManualPoissonCdf(k, lambda_poisson)

\* _binomial_probability(n, k, p): n and pp on the grid, k an integer.
binomial_probability(n, k, pp) ==
    IF k = 1 THEN One - PowFx(One - pp, n)
    ELSE IF k * SCALE > n THEN 0
    ELSE LET lambda_poisson == MulFx(n, pp)
         IN  IF LambdaNegligible(lambda_poisson) THEN 0
             ELSE IF scipy THEN One - ScipyPoissonCdf(k - 1, lambda_poisson)
             ELSE One - ManualPoissonCdf(k, lambda_poisson)

\* Variant: the repair efficiency is ignored.
PEffNoRepair == p

\* p_eff = self.p * (1 - self.r)
PEff == MulFx(p, One - r)

\* N = ages * self.divisions_per_year, element-wise
TrialCounts(ages) == [i \in 1..Len(ages) |-> MulFx(ages[i], divisions_per_year)]

\* p_cell: the single-hit closed form for C = 1, the approximator on int(n) otherwise
CellProbability(n) ==
    IF C = 1 THEN One - PowFx(One - PEff, n)
    ELSE binomial_probability(IntTrunc(n) * SCALE, C, PEff)

\* Variant: the union bound M * p_cell in place of 1 - (1 - p_cell) ** M.
TissueUnionBound(p_cell) == M * p_cell

\* P_tissue = 1 - (1 - p_cell) ** self.M
TissueProbability(p_cell) == One - IntPow(One - p_cell, M)

predict(ages) ==
    LET N == TrialCounts(ages)
    IN  [i \in 1..Len(ages) |-> TissueProbability(CellProbability(N[i]))]

\* ndarray.max()
RECURSIVE SeqMax(_)
SeqMax(s) ==
    IF Len(s) = 1 THEN s[1]
    ELSE LET m == SeqMax(Tail(s)) IN IF s[1] >= m THEN s[1] ELSE m

Returned(v) == [raised |-> FALSE, val |-> v]
Raised(e) == [raised |-> TRUE, val |-> e]

\* Variant: multiplies by scale_to_max without dividing by max_val.
ScaleNoNormalise(P_tissue, max_val, scale_to_max) ==
    [i \in 1..Len(P_tissue) |-> MulFx(P_tissue[i], scale_to_max)]

\* P_tissue / max_val * scale_to_max, element-wise
ScaleTo(P_tissue, max_val, scale_to_max) ==
    [i \in 1..Len(P_tissue) |-> MulFx(DivFx(P_tissue[i], max_val), scale_to_max)]

\* Variant: no branch for max_val = 0; the division by zero is reported.
predict_scaled_unguarded(ages, scale) ==
    LET P_tissue == predict(ages)
    IN  IF scale # <<>>
        THEN IF Len(P_tissue) = 0 THEN Raised("ValueError")
             ELSE LET max_val == SeqMax(P_tissue)
                  IN  IF max_val = 0 THEN Raised("ZeroDivisionError")
                      ELSE Returned(ScaleTo(P_tissue, max_val, scale[1]))
        ELSE Returned(P_tissue)

\* predict_scaled(ages, scale_to_max): scale is <<>> for None, <<X>> otherwise.
\* max() of an empty array raises ValueError.
predict_scaled(ages, scale) ==
    LET P_tissue == predict(ages)
    IN  IF scale # <<>>
        THEN IF Len(P_tissue) = 0 THEN Raised("ValueError")
             ELSE LET max_val == SeqMax(P_tissue)
                  IN  IF max_val > 0
                      THEN Returned(ScaleTo(P_tissue, max_val, scale[1]))
                      ELSE Returned([i \in 1..Len(P_tissue) |-> 0])
        ELSE Returned(P_tissue)

\* Variant: reports the effective mutation probability as "p".
get_parameters_effective ==
    [p |-> PEff, M |-> M, divisions_per_year |-> divisions_per_year, C |-> C, r |-> r]

get_parameters ==
    [p |-> p, M |-> M, divisions_per_year |-> divisions_per_year, C |-> C, r |-> r]

----------------------------------------------------------------------------
(* Inputs.                                                                 *)

PSet == {SCALE \div d : d \in 2..MaxPDen}
MSet == 1..MaxM
DpySet == {SCALE \div 2, 2 * SCALE, (5 * SCALE) \div 2}
CSet == 1..MaxC
RSet == {0, SCALE \div 2, SCALE}
AgeSet == {h * (SCALE \div 2) : h \in 0..MaxAgeHalves}
AgeSeqs == UNION {[1..n -> AgeSet] : n \in 0..MaxLen}
ScaleSet == {<<>>, <<-SCALE>>, <<0>>, <<(3 * SCALE) \div 2>>}

NoCall == [op |-> "none", ages |-> <<>>, scale |-> <<>>, n |-> 0, k |-> 0, pp |-> 0,
           label |-> <<>>]

\* The trial counts the approximator is called with directly.
NSet == {MulFx(a, d) : a \in AgeSet, d \in DpySet}

----------------------------------------------------------------------------
(* The model object: construction and its methods.  The program is         *)
(* single-threaded: a method is called when no call is in progress, runs   *)
(* to its end, and its caller takes the result before the next call.       *)

Idle == call.op = "none"

\* __init__(p, M, divisions_per_year, C, r)
Init ==
    /\ p \in PSet
    /\ M \in MSet
    /\ divisions_per_year \in DpySet
    /\ C \in CSet
    /\ r \in RSet
    /\ ctor = [p |-> p, M |-> M, divisions_per_year |-> divisions_per_year,
               C |-> C, r |-> r]
    /\ scipy \in BOOLEAN
    /\ predicted = FALSE
    /\ call = NoCall
    /\ ret = Returned(<<>>)

Predict ==
    /\ Idle
    /\ \E ages \in AgeSeqs :
        /\ call' = [NoCall EXCEPT !.op = "predict", !.ages = ages]
        /\ ret' = Returned(predict(ages))
    /\ predicted' = TRUE
    /\ UNCHANGED <<p, M, divisions_per_year, C, r, ctor, scipy>>

PredictScaled ==
    /\ Idle
    /\ \E ages \in AgeSeqs, scale \in ScaleSet :
        /\ call' = [NoCall EXCEPT !.op = "predict_scaled", !.ages = ages,
                                  !.scale = scale]
        /\ ret' = predict_scaled(ages, scale)
    /\ predicted' = TRUE
    /\ UNCHANGED <<p, M, divisions_per_year, C, r, ctor, scipy>>

GetParameters ==
    /\ Idle
    /\ call' = [NoCall EXCEPT !.op = "get_parameters"]
    /\ ret' = Returned(get_parameters)
    /\ UNCHANGED <<p, M, divisions_per_year, C, r, ctor, scipy, predicted>>

\* A direct call of _binomial_probability(n, k, p).
BinomialProbability ==
    /\ Idle
    /\ \E n \in NSet, k \in CSet, pp \in PSet :
        /\ call' = [NoCall EXCEPT !.op = "_binomial_probability", !.n = n, !.k = k,
                                  !.pp = pp]
        /\ ret' = Returned(binomial_probability(n, k, pp))
    /\ UNCHANGED <<p, M, divisions_per_year, C, r, ctor, scipy, predicted>>

\* The caller takes the result; the object is ready for the next call.
Return ==
    /\ ~Idle
    /\ call' = NoCall
    /\ ret' = Returned(<<>>)
    /\ UNCHANGED <<p, M, divisions_per_year, C, r, ctor, scipy, predicted>>

Next == Predict \/ PredictScaled \/ GetParameters \/ BinomialProbability \/ Return

Spec == Init /\ [][Next]_vars

----------------------------------------------------------------------------
(* Age-group labels (src/src/utils.py).  A string is a sequence of         *)
(* one-character strings.                                                  *)

MaxLabel == 4        \* longest label built from Alphabet

Digits == <<"0", "1", "2", "3", "4", "5", "6", "7", "8", "9">>
IsDigit(c) == \E d \in 1..Len(Digits) : Digits[d] = c
DigitValue(c) == (CHOOSE d \in 1..Len(Digits) : Digits[d] = c) - 1

AllAges == <<"A", "l", "l", " ", "A", "g", "e", "s">>

\* str.lstrip() / str.rstrip(): leading / trailing whitespace removed
RECURSIVE LStrip(_)
LStrip(s) == IF Len(s) > 0 /\ s[1] = " " THEN LStrip(Tail(s)) ELSE s

\* str.rstrip(chars) for a one-character chars
RECURSIVE RStrip(_, _)
RStrip(s, c) ==
    IF Len(s) > 0 /\ s[Len(s)] = c THEN RStrip(SubSeq(s, 1, Len(s) - 1), c) ELSE s

\* str.strip()
Strip(s) == RStrip(LStrip(s), " ")

\* str.endswith(c)
EndsWith(s, c) == Len(s) > 0 /\ s[Len(s)] = c

\* c in s
Contains(s, c) == \E i \in 1..Len(s) : s[i] = c

\* str.split(c): the parts between the occurrences of c
RECURSIVE Split(_, _)
Split(s, c) ==
    IF ~Contains(s, c) THEN <<s>>
    ELSE LET i == CHOOSE j \in 1..Len(s) :
                      s[j] = c /\ \A h \in 1..(j - 1) : s[h] # c
         IN  <<SubSeq(s, 1, i - 1)>> \o Split(SubSeq(s, i + 1, Len(s)), c)

\* The integer a string of decimal digits denotes.
RECURSIVE DigitsValue(_)
DigitsValue(s) ==
    IF Len(s) = 0 THEN 0
    ELSE 10 * DigitsValue(SubSeq(s, 1, Len(s) - 1)) + DigitValue(s[Len(s)])

\* float(t) on strings of digits, signs, blanks and letters: surrounding
\* whitespace is ignored, one sign may lead, at least one digit must follow and
\* nothing else; otherwise ValueError.
PyFloat(t) ==
    LET u == Strip(t)
        signed == Len(u) > 0 /\ u[1] \in {"+", "-"}
        body == IF signed THEN Tail(u) ELSE u
    IN  IF Len(body) > 0 /\ \A i \in 1..Len(body) : IsDigit(body[i])
        THEN Returned((IF signed /\ u[1] = "-" THEN -1 ELSE 1)
                        * DigitsValue(body) * SCALE)
        ELSE Raised("ValueError")

\* A float result: a number on the grid, or NaN.
Num(v) == [nan |-> FALSE, num |-> v]
NaN == [nan |-> TRUE, num |-> 0]

\* try: return <value of f>  except ValueError: return nan
OrNaN(f) == IF f.raised THEN Returned(NaN) ELSE Returned(Num(f.val))

\* The body of age_group_to_start after the strip.
StartOfStripped(s) ==
    IF s = AllAges THEN Returned(Num(-One))
    ELSE IF EndsWith(s, "+") THEN OrNaN(PyFloat(RStrip(s, "+")))
    ELSE IF Contains(s, "-") THEN OrNaN(PyFloat(Split(s, "-")[1]))
    ELSE Returned(NaN)

\* Variant: the label is not stripped.
age_group_to_start_unstripped(age_str) == StartOfStripped(age_str)

age_group_to_start(age_str) == StartOfStripped(Strip(age_str))

\* Variant: only the first two parts of the split are unpacked.
MidOfFirstTwoParts(parts) ==
    LET lo == PyFloat(parts[1])
        hi == PyFloat(parts[2])
    IN  IF lo.raised THEN lo
        ELSE IF hi.raised THEN hi
        ELSE Returned((lo.val + hi.val) \div 2)

\* lo, hi = age_str.split("-"); return (float(lo) + float(hi)) / 2.0
\* Unpacking other than two parts raises ValueError, like a failing float().
MidOfParts(parts) ==
    IF Len(parts) # 2 THEN Raised("ValueError")
    ELSE LET lo == PyFloat(parts[1])
             hi == PyFloat(parts[2])
         IN  IF lo.raised THEN lo
             ELSE IF hi.raised THEN hi
             ELSE Returned((lo.val + hi.val) \div 2)

\* start = float(age_str.rstrip("+")); return start + 2.5
MidOfOpenEnded(s) ==
    LET start == PyFloat(RStrip(s, "+"))
    IN  IF start.raised THEN start ELSE Returned(start.val + (5 * SCALE) \div 2)

age_group_to_mid(age_str) ==
    LET s == Strip(age_str)
    IN  IF s = AllAges THEN Returned(NaN)
        ELSE IF EndsWith(s, "+") THEN OrNaN(MidOfOpenEnded(s))
        ELSE IF Contains(s, "-") THEN OrNaN(MidOfParts(Split(s, "-")))
        ELSE Returned(NaN)

\* Labels: every string over Alphabet up to MaxLabel characters, and the
\* labels of the data set and of the tests, some with surrounding blanks.
Alphabet == {"1", "4", "-", "+", " ", "x"}
ShortLabels == UNION {[1..n -> Alphabet] : n \in 0..MaxLabel}
NamedLabels ==
    { AllAges, <<" ">> \o AllAges \o <<" ">>, AllAges \o <<"+">>,
      <<"A", "l", "l", "-", "A", "g", "e", "s">>,
      <<"7", "0", "-", "7", "4">>, <<"8", "5", "+">>, <<" ", "8", "5", "+", " ">>,
      <<"i", "n", "v", "a", "l", "i", "d">> }
LabelSet == ShortLabels \cup NamedLabels

InitParse ==
    /\ p = SCALE \div 2
    /\ M = 1
    /\ divisions_per_year = SCALE \div 2
    /\ C = 1
    /\ r = 0
    /\ ctor = [p |-> p, M |-> M, divisions_per_year |-> divisions_per_year,
               C |-> C, r |-> r]
    /\ scipy = TRUE
    /\ predicted = FALSE
    /\ call = NoCall
    /\ ret = Returned(<<>>)

AgeGroupToStart ==
    /\ Idle
    /\ \E label \in LabelSet :
        /\ call' = [NoCall EXCEPT !.op = "age_group_to_start", !.label = label]
        /\ ret' = age_group_to_start(label)
    /\ UNCHANGED <<p, M, divisions_per_year, C, r, ctor, scipy, predicted>>

AgeGroupToMid ==
    /\ Idle
    /\ \E label \in LabelSet :
        /\ call' = [NoCall EXCEPT !.op = "age_group_to_mid", !.label = label]
        /\ ret' = age_group_to_mid(label)
    /\ UNCHANGED <<p, M, divisions_per_year, C, r, ctor, scipy, predicted>>

NextParse == AgeGroupToStart \/ AgeGroupToMid \/ Return

SpecParse == InitParse /\ [][NextParse]_vars

----------------------------------------------------------------------------
(* Properties of MutationAccumulationModel, checked under Spec.            *)

IsPredict == call.op = "predict"
IsScaled == call.op = "predict_scaled" /\ call.scale # <<>> /\ Len(call.ages) > 0

\* N_i = ages[i] * divisions_per_year of the call in progress
TrialCountOf(i) == MulFx(call.ages[i], divisions_per_year)

\* 1 - (1 - p_cell)^M with p_cell the approximator's P(X >= C) at trial count n
\* and success probability p * (1 - r)
TissueFormula(n) ==
    One - IntPow(One - binomial_probability(n, C, MulFx(p, One - r)), M)

\* C1 as stated: predict(ages) has the length and order of ages and its i-th
\* element is 1 - (1 - p_cell_i)^M with p_cell_i evaluated at the real-valued
\* N_i = ages[i] * divisions_per_year, for C = 1 and for C > 1 alike.
C1_RealTrialCount ==
    IsPredict =>
        /\ ~ret.raised
        /\ Len(ret.val) = Len(call.ages)
        /\ \A i \in 1..Len(call.ages) : ret.val[i] = TissueFormula(TrialCountOf(i))

\* C1 amended: as C1, except that for C > 1 the approximator is evaluated at
\* the trial count truncated to an integer, int(ages[i] * divisions_per_year).
C1_TruncatedTrialCount ==
    IsPredict =>
        /\ ~ret.raised
        /\ Len(ret.val) = Len(call.ages)
        /\ \A i \in 1..Len(call.ages) :
              ret.val[i] = TissueFormula(IF C = 1 THEN TrialCountOf(i)
                                        ELSE IntTrunc(TrialCountOf(i)) * SCALE)

\* A prediction for two different ages with C > 1 whose first trial count is
\* fractional, reaches the threshold and gives a positive risk.
C1_Witness ==
    /\ IsPredict /\ C > 1 /\ Len(call.ages) = 2
    /\ call.ages[1] # call.ages[2]
    /\ TrialCountOf(1) % SCALE # 0
    /\ IntTrunc(TrialCountOf(1)) >= C
    /\ ret.val[1] > 0

IsApproximator == call.op = "_binomial_probability"

\* C4 as stated: _binomial_probability(n, k, p) is exactly 0 whenever n < k,
\* including k = 1 with 0 <= n < 1.
C4_ZeroBelowThreshold ==
    IsApproximator /\ call.n < call.k * SCALE => ret.val = 0

\* C4 amended: for k >= 2 and n < k the result is exactly 0; for k = 1 and
\* 0 <= n < 1 it is 1 - (1 - p)^n, which is 0 for n = 0 and positive for n > 0.
C4_ZeroBelowThresholdMultiHit ==
    IsApproximator /\ call.n < call.k * SCALE =>
        /\ call.k >= 2 => ret.val = 0
        /\ call.k = 1 =>
              /\ ret.val = One - PowFx(One - call.pp, call.n)
              /\ call.n = 0 => ret.val = 0
              /\ call.n > 0 => ret.val > 0

\* A multi-hit call with a positive fractional trial count below the threshold.
C4_Witness ==
    /\ IsApproximator /\ call.k >= 2
    /\ 0 < call.n /\ call.n < call.k * SCALE /\ call.n % SCALE # 0
    /\ ret.val = 0

\* C5 as stated: for non-empty ages and any scale_to_max = X, if the unscaled
\* maximum is nonzero then max(predict_scaled(ages, X)) = X.
C5_MaxIsScale ==
    IsScaled /\ SeqMax(predict(call.ages)) # 0 =>
        ~ret.raised /\ SeqMax(ret.val) = call.scale[1]

\* C5 amended: the same for X >= 0.
C5_MaxIsNonNegativeScale ==
    IsScaled /\ SeqMax(predict(call.ages)) # 0 /\ call.scale[1] >= 0 =>
        ~ret.raised /\ SeqMax(ret.val) = call.scale[1]

\* Two different predictions scaled to a positive maximum.
C5_Witness ==
    /\ IsScaled /\ Len(call.ages) = 2 /\ call.scale[1] > 0
    /\ ~ret.raised
    /\ ret.val[1] # ret.val[2]
    /\ SeqMax(ret.val) = call.scale[1]

\* C6: with scale_to_max given and an unscaled maximum of exactly 0,
\* predict_scaled returns zeros of the length of ages and reports no error.
C6_ZeroMaxGivesZeros ==
    IsScaled /\ SeqMax(predict(call.ages)) = 0 =>
        ~ret.raised /\ ret.val = [i \in 1..Len(call.ages) |-> 0]

\* Scaling a prediction that is all zero because no age reaches the
\* threshold C, although mutations are not all repaired.
C6_Witness ==
    /\ IsScaled /\ Len(call.ages) = 2 /\ C > 1 /\ r < One
    /\ call.ages[2] > 0 /\ call.scale[1] # 0
    /\ SeqMax(predict(call.ages)) = 0
    /\ ret = Returned(<<0, 0>>)

\* C7: the five fields always hold the constructor's arguments, and
\* get_parameters returns exactly them, after any sequence of calls.
C7_ParametersAreConstructorArguments ==
    /\ [p |-> p, M |-> M, divisions_per_year |-> divisions_per_year, C |-> C,
        r |-> r] = ctor
    /\ call.op = "get_parameters" => ret = Returned(ctor)

\* get_parameters called after a prediction, on a model with repair.
C7_Witness ==
    /\ call.op = "get_parameters" /\ predicted /\ r > 0
    /\ ret.val = ctor

----------------------------------------------------------------------------
(* Properties of the age-group parsers, checked under SpecParse.           *)

IsStart == call.op = "age_group_to_start"
IsMid == call.op = "age_group_to_mid"

\* The label of the call in progress with its surrounding whitespace trimmed.
Trimmed == Strip(call.label)

\* A text is numeric when float() accepts it; NumberOf is the number it denotes.
Numeric(t) == ~PyFloat(t).raised
NumberOf(t) == PyFloat(t).val

\* The text before the trailing "+" signs, and the text before the first "-".
BeforePlus(t) == RStrip(t, "+")
BeforeDash(t) ==
    SubSeq(t, 1, (CHOOSE i \in 1..Len(t) :
                     t[i] = "-" /\ \A h \in 1..(i - 1) : t[h] # "-") - 1)
AfterDash(t) == SubSeq(t, Len(BeforeDash(t)) + 2, Len(t))
DashCount(t) == Cardinality({i \in 1..Len(t) : t[i] = "-"})

C9_AllAgesIsNaN ==
    IsStart =>
        ret = Returned(
              IF Trimmed # AllAges /\ EndsWith(Trimmed, "+")
                 /\ Numeric(BeforePlus(Trimmed))
              THEN Num(NumberOf(BeforePlus(Trimmed)))
              ELSE IF Trimmed # AllAges /\ ~EndsWith(Trimmed, "+")
                      /\ DashCount(Trimmed) > 0 /\ Numeric(BeforeDash(Trimmed))
              THEN Num(NumberOf(BeforeDash(Trimmed)))
              ELSE NaN)

\* C10: age_group_to_mid never raises; on the trimmed label, "All Ages" gives
\* NaN, a label ending in "+" with a numeric prefix lo gives lo + 2.5, a label
\* with exactly one "-" between two numeric bounds gives (lo + hi) / 2, and
\* every other string gives NaN.
C10_MidOfLabel ==
    IsMid =>
        /\ ~ret.raised
        /\ ret.val =
              IF Trimmed = AllAges THEN NaN
              ELSE IF EndsWith(Trimmed, "+")
                   THEN IF Numeric(BeforePlus(Trimmed))
                        THEN Num(NumberOf(BeforePlus(Trimmed)) + (5 * SCALE) \div 2)
                        ELSE NaN
              ELSE IF DashCount(Trimmed) = 1 /\ Numeric(BeforeDash(Trimmed))
                      /\ Numeric(AfterDash(Trimmed))
                   THEN Num((NumberOf(BeforeDash(Trimmed))
                             + NumberOf(AfterDash(Trimmed))) \div 2)
              ELSE NaN

\* "70-74" parsed to its midpoint 72.
C10_Witness ==
    /\ IsMid
    /\ call.label = <<"7", "0", "-", "7", "4">>
    /\ ret = Returned(Num(72 * SCALE))

----------------------------------------------------------------------------
(* Fit statistics (src/src/visualization.py, plot_residual_analysis).      *)
(* The plotting calls draw and leave the returned statistics untouched.    *)
(* The three metrics are scikit-learn's; they are modelled by what that    *)
(* library computes for one-dimensional inputs without sample weights.     *)

MaxRates == 3        \* longest observed / predicted series

\* Sum of the entries of a sequence.
RECURSIVE SeqSum(_)
SeqSum(s) == IF Len(s) = 0 THEN 0 ELSE Head(s) + SeqSum(Tail(s))

Abs(x) == IF x < 0 THEN -x ELSE x

\* np.sqrt(x) for 0 <= x < 16, rounded down to the grid.
NpSqrt(x) == SqrtBisect(0, 4 * SCALE, x * SCALE)

\* Variant: predicted minus observed.
ResidualsReversed(rates_obs, rates_pred) ==
    [i \in 1..Len(rates_obs) |-> rates_pred[i] - rates_obs[i]]

\* residuals = rates_obs - rates_pred
Residuals(rates_obs, rates_pred) ==
    [i \in 1..Len(rates_obs) |-> rates_obs[i] - rates_pred[i]]

\* Squares of the entries of a sequence.
Squares(s) == [i \in 1..Len(s) |-> MulFx(s[i], s[i])]

\* sklearn.metrics.mean_squared_error: the average of (y_true - y_pred) ** 2
mean_squared_error(y_true, y_pred) ==
    SeqSum(Squares([i \in 1..Len(y_true) |-> y_true[i] - y_pred[i]])) \div Len(y_true)

\* sklearn.metrics.mean_absolute_error: the average of |y_pred - y_true|
mean_absolute_error(y_true, y_pred) ==
    SeqSum([i \in 1..Len(y_true) |-> Abs(y_pred[i] - y_true[i])]) \div Len(y_true)

\* The residual and the total sum of squares of r2_score.
SSRes(y_true, y_pred) ==
    SeqSum(Squares([i \in 1..Len(y_true) |-> y_true[i] - y_pred[i]]))
SSTot(y_true) ==
    LET mean == SeqSum(y_true) \div Len(y_true)
    IN  SeqSum(Squares([i \in 1..Len(y_true) |-> y_true[i] - mean]))

\* sklearn.metrics.r2_score: NaN (with a warning) for fewer than two samples;
\* 1 - SS_res / SS_tot when both sums are non-zero; otherwise 1.0, except 0.0
\* for a non-zero SS_res over a zero SS_tot.
r2_score(y_true, y_pred) ==
    LET numerator == SSRes(y_true, y_pred)
        denominator == SSTot(y_true)
    IN  IF Len(y_pred) < 2 THEN NaN
        ELSE IF numerator # 0 /\ denominator # 0
             THEN Num(One - DivFx(numerator, denominator))
        ELSE IF numerator # 0 THEN Num(0)
        ELSE Num(One)

\* The dictionary plot_residual_analysis returns.
plot_residual_analysis(rates_obs, rates_pred) ==
    LET residuals == Residuals(rates_obs, rates_pred)
        mse == mean_squared_error(rates_obs, rates_pred)
        r2 == r2_score(rates_obs, rates_pred)
        mae == mean_absolute_error(rates_obs, rates_pred)
        rmse == NpSqrt(mse)
    IN  [mse |-> mse, r2 |-> r2, mae |-> mae, rmse |-> rmse, residuals |-> residuals]

\* Rates 0, 0.5, 1 and 2 per 100,000; observed and predicted share a length.
RateSet == {0, SCALE \div 2, SCALE, 2 * SCALE}
RateSeqs(n) == [1..n -> RateSet]

PlotResidualAnalysis ==
    /\ Idle
    /\ \E n \in 1..MaxRates :
       \E rates_obs \in RateSeqs(n), rates_pred \in RateSeqs(n) :
        /\ call' = [op |-> "plot_residual_analysis", rates_obs |-> rates_obs,
                    rates_pred |-> rates_pred]
        /\ ret' = Returned(plot_residual_analysis(rates_obs, rates_pred))
    /\ UNCHANGED <<p, M, divisions_per_year, C, r, ctor, scipy, predicted>>

NextFit == PlotResidualAnalysis \/ Return

SpecFit == InitParse /\ [][NextFit]_vars

----------------------------------------------------------------------------
(* Properties of the fit statistics, checked under SpecFit.                *)

IsFit == call.op = "plot_residual_analysis"
FitLen == Len(call.rates_obs)
Identical == call.rates_obs = call.rates_pred
SumSqResiduals ==
    SeqSum([i \in 1..FitLen |-> MulFx(ret.val.residuals[i], ret.val.residuals[i])])
SumAbsResiduals == SeqSum([i \in 1..FitLen |-> Abs(ret.val.residuals[i])])

\* The definitions of the statistics, up to the rounding of the grid:
\* residuals[i] = observed[i] - predicted[i], mse = mean(residuals^2),
\* rmse = sqrt(mse), mae = mean(|residuals|).
FitDefinitions ==
    /\ ~ret.raised
    /\ Len(ret.val.residuals) = FitLen
    /\ \A i \in 1..FitLen :
          ret.val.residuals[i] + call.rates_pred[i] = call.rates_obs[i]
    /\ FitLen * ret.val.mse <= SumSqResiduals
    /\ SumSqResiduals < FitLen * (ret.val.mse + 1)
    /\ ret.val.rmse * ret.val.rmse <= ret.val.mse * SCALE
    /\ ret.val.mse * SCALE < (ret.val.rmse + 1) * (ret.val.rmse + 1)
    /\ FitLen * ret.val.mae <= SumAbsResiduals
    /\ SumAbsResiduals < FitLen * (ret.val.mae + 1)

\* A perfect fit apart from r2: residuals all 0 and mse = rmse = mae = 0.
PerfectErrors ==
    /\ \A i \in 1..FitLen : ret.val.residuals[i] = 0
    /\ ret.val.mse = 0 /\ ret.val.rmse = 0 /\ ret.val.mae = 0

\* C11 as stated: for every non-empty series x, observed = x against
\* predicted = x gives residuals 0, mse = rmse = mae = 0 and r2 = 1, and the
\* statistics follow their definitions in general.
C11_IdenticalSeriesPerfect ==
    IsFit =>
        /\ FitDefinitions
        /\ Identical => PerfectErrors /\ ret.val.r2 = Num(One)

\* C11 amended: the statistics follow their definitions; r2 is
\* 1 - SS_res / SS_tot for two or more samples with SS_tot # 0; identical
\* series give residuals 0 and mse = rmse = mae = 0, with r2 = 1 for two or
\* more samples (a constant series included) and r2 = NaN for one sample.
C11_IdenticalSeriesPerfectFromTwo ==
    IsFit =>
        /\ FitDefinitions
        /\ FitLen >= 2 /\ SSTot(call.rates_obs) # 0 =>
              /\ ~ret.val.r2.nan
              /\ (One - ret.val.r2.num) * SSTot(call.rates_obs)
                    <= SumSqResiduals * SCALE
              /\ SumSqResiduals * SCALE
                    < (One - ret.val.r2.num + 1) * SSTot(call.rates_obs)
        /\ Identical => PerfectErrors
        /\ Identical /\ FitLen >= 2 => ret.val.r2 = Num(One)
        /\ Identical /\ FitLen = 1 => ret.val.r2 = NaN

\* A constant series of two samples evaluated against itself: r2 = 1.
C11_Witness ==
    /\ IsFit
    /\ Identical /\ FitLen = 2 /\ call.rates_obs[1] = call.rates_obs[2]
    /\ call.rates_obs[1] > 0
    /\ ret.val.r2 = Num(One) /\ ret.val.mse = 0

----------------------------------------------------------------------------
(* Tables of the BYAGE data set (src/src/data_loader.py) and the curve     *)
(* extractors.  A DataFrame is the sequence of its rows, a row a record of *)
(* its columns; AGE is a string as above, a numeric cell is Num(v) or NaN  *)
(* (the "~" of the files is read as NaN).                                  *)

MaxRows == 2         \* most rows of an input table

\* The result of a float division by zero with a non-zero numerator.
Inf == [nan |-> FALSE, num |-> 0, inf |-> TRUE]

\* None, and the numpy array df[col].values of a column.
None == [none |-> TRUE]
NdArray(values) == [values |-> values]

\* x / y on two cells, as the float division of a Series: nan propagates,
\* 0 / 0 is nan and a division by zero raises nothing.
FloatDiv(x, y) ==
    IF x.nan \/ y.nan THEN NaN
    ELSE IF y.num = 0 THEN (IF x.num = 0 THEN NaN ELSE Inf)
    ELSE Num((x.num * SCALE) \div y.num)

\* The sum of a column, NaN cells skipped (an all-NaN column sums to 0).
RECURSIVE SumSkipNa(_)
SumSkipNa(cells) ==
    IF Len(cells) = 0 THEN 0
    ELSE (IF Head(cells).nan THEN 0 ELSE Head(cells).num) + SumSkipNa(Tail(cells))

\* Characters in the order of their code points, and the str comparison a < b.
CharOrder ==
    <<" ", "+", "-", "0", "1", "2", "3", "4", "5", "6", "7", "8", "9", "<",
      "A", "e", "g", "l", "s">>
Ord(c) == CHOOSE i \in 1..Len(CharOrder) : CharOrder[i] = c
RECURSIVE StrLess(_, _)
StrLess(a, b) ==
    IF Len(b) = 0 THEN FALSE
    ELSE IF Len(a) = 0 THEN TRUE
    ELSE IF a[1] = b[1] THEN StrLess(Tail(a), Tail(b))
    ELSE Ord(a[1]) < Ord(b[1])

\* df[mask]: the rows of df whose entry in the boolean mask is True.
RECURSIVE Masked(_, _)
Masked(df, mask) ==
    IF Len(df) = 0 THEN <<>>
    ELSE (IF Head(mask) THEN <<Head(df)>> ELSE <<>>) \o Masked(Tail(df), Tail(mask))

\* The rows of df for incidence, all races and one site.
SiteRows(df, site_name) ==
    Masked(df, [i \in 1..Len(df) |-> /\ df[i].EVENT_TYPE = "Incidence"
                                      /\ df[i].RACE = "All Races"
                                      /\ df[i].SITE = site_name])

\* AGE_START.notna() & (AGE != "All Ages")
KeepOrderable(row) == ~row.AGE_START.nan /\ row.AGE # AllAges

\* prepare_all_sites_age_data(by_age)
prepare_all_sites_age_data(by_age) ==
    LET all_sites_age_inc == SiteRows(by_age, "All Cancer Sites Combined")
        with_start ==
            [i \in 1..Len(all_sites_age_inc) |->
                [EVENT_TYPE |-> all_sites_age_inc[i].EVENT_TYPE,
                 RACE |-> all_sites_age_inc[i].RACE,
                 SITE |-> all_sites_age_inc[i].SITE,
                 SEX |-> all_sites_age_inc[i].SEX,
                 AGE |-> all_sites_age_inc[i].AGE,
                 YEAR |-> all_sites_age_inc[i].YEAR,
                 COUNT |-> all_sites_age_inc[i].COUNT,
                 POPULATION |-> all_sites_age_inc[i].POPULATION,
                 RATE |-> all_sites_age_inc[i].RATE,
                 AGE_START |-> age_group_to_start(all_sites_age_inc[i].AGE).val]]
    IN  Masked(with_start, [i \in 1..Len(with_start) |-> KeepOrderable(with_start[i])])

\* The keys of groupby(["AGE", "YEAR"]) in their sorted order.
KeyLess(a, b) == StrLess(a.AGE, b.AGE) \/ (a.AGE = b.AGE /\ a.YEAR < b.YEAR)
RECURSIVE SortedKeys(_)
SortedKeys(keys) ==
    IF keys = {} THEN <<>>
    ELSE LET first == CHOOSE a \in keys : \A b \in keys \ {a} : KeyLess(a, b)
         IN  <<first>> \o SortedKeys(keys \ {first})

\* groupby(["AGE", "YEAR"], as_index=False).agg(COUNT: sum, POPULATION: sum)
GroupByAgeYear(df_site) ==
    LET keys == SortedKeys({[AGE |-> df_site[i].AGE, YEAR |-> df_site[i].YEAR] :
                                i \in 1..Len(df_site)})
        group(key) == Masked(df_site, [i \in 1..Len(df_site) |->
                                 df_site[i].AGE = key.AGE /\ df_site[i].YEAR = key.YEAR])
        column(df, col) == [i \in 1..Len(df) |-> df[i][col]]
    IN  [g \in 1..Len(keys) |->
            [AGE |-> keys[g].AGE, YEAR |-> keys[g].YEAR,
             COUNT |-> Num(SumSkipNa(column(group(keys[g]), "COUNT"))),
             POPULATION |-> Num(SumSkipNa(column(group(keys[g]), "POPULATION")))]]

\* sort_values("AGE_MID") on rows without NaN midpoints; equal midpoints keep
\* their order.
RECURSIVE SortByAgeMid(_)
SortByAgeMid(df) ==
    IF Len(df) = 0 THEN <<>>
    ELSE LET least == CHOOSE i \in 1..Len(df) :
                          /\ \A j \in 1..Len(df) : df[i].AGE_MID.num <= df[j].AGE_MID.num
                          /\ \A j \in 1..(i - 1) : df[j].AGE_MID.num > df[i].AGE_MID.num
         IN  <<df[least]>>
               \o SortByAgeMid(SubSeq(df, 1, least - 1) \o SubSeq(df, least + 1, Len(df)))

\* df[pd.to_numeric(df["YEAR"], errors="coerce") == target_year]
YearRows(df, target_year) == Masked(df, [i \in 1..Len(df) |-> df[i].YEAR = target_year])

\* get_site_age_incidence(by_age, site_name, target_year)
get_site_age_incidence(by_age, site_name, target_year) ==
    LET df_site == SiteRows(by_age, site_name)
        agg == GroupByAgeYear(df_site)
        with_mid ==
            [i \in 1..Len(agg) |->
                [AGE |-> agg[i].AGE, YEAR |-> agg[i].YEAR,
                 COUNT |-> agg[i].COUNT, POPULATION |-> agg[i].POPULATION,
                 RATE |-> LET q == FloatDiv(agg[i].COUNT, agg[i].POPULATION)
                          IN  IF q.nan THEN NaN
                              ELSE IF q = Inf THEN Inf
                              ELSE Num(q.num * 100000),
                 AGE_MID |-> age_group_to_mid(agg[i].AGE).val]]
        known == Masked(with_mid, [i \in 1..Len(with_mid) |-> ~with_mid[i].AGE_MID.nan])
        df_year == SortByAgeMid(YearRows(known, target_year))
    IN  IF Len(df_site) = 0
        THEN [ages |-> None, rates |-> None, df_year |-> df_site]
        ELSE [ages |-> NdArray([i \in 1..Len(df_year) |-> df_year[i].AGE_MID]),
              rates |-> NdArray([i \in 1..Len(df_year) |-> df_year[i].RATE]),
              df_year |-> df_year]

\* prepare_age_incidence_data(all_sites_age_inc, target_year)
prepare_age_incidence_data(all_sites_age_inc, target_year) ==
    LET with_mid ==
            [i \in 1..Len(all_sites_age_inc) |->
                [AGE |-> all_sites_age_inc[i].AGE,
                 YEAR |-> all_sites_age_inc[i].YEAR,
                 SEX |-> all_sites_age_inc[i].SEX,
                 RATE |-> all_sites_age_inc[i].RATE,
                 AGE_MID |-> age_group_to_mid(all_sites_age_inc[i].AGE).val]]
        age_model_df ==
            Masked(with_mid, [i \in 1..Len(with_mid) |-> ~with_mid[i].AGE_MID.nan])
        age_year_df == SortByAgeMid(YearRows(age_model_df, target_year))
    IN  [ages |-> NdArray([i \in 1..Len(age_year_df) |-> age_year_df[i].AGE_MID]),
         rates |-> NdArray([i \in 1..Len(age_year_df) |-> age_year_df[i].RATE])]

\* Input tables.  Age labels of the data set, one pair with the same midpoint,
\* the sentinel with and without surrounding blanks, and "<1".
AgeLabels ==
    { <<"1", "-", "4">>, <<"0", "-", "5">>, <<"8", "5", "+">>, AllAges,
      <<" ">> \o AllAges \o <<" ">>, <<"<", "1">> }
YearSet == {2019, 2020}
SiteSet == {"All Cancer Sites Combined", "Colon and Rectum"}
\* A reported cell triple (1 case in 4 people, 25000 per 100,000) and a
\* suppressed one.
CellSet ==
    { [COUNT |-> Num(1), POPULATION |-> Num(4), RATE |-> Num(25000 * SCALE)],
      [COUNT |-> NaN, POPULATION |-> NaN, RATE |-> NaN] }
Row(event_type, race, site, sex, age, year, cells) ==
    [EVENT_TYPE |-> event_type, RACE |-> race, SITE |-> site, SEX |-> sex,
     AGE |-> age, YEAR |-> year, COUNT |-> cells.COUNT,
     POPULATION |-> cells.POPULATION, RATE |-> cells.RATE]
RowSet ==
    { Row("Incidence", "All Races", "All Cancer Sites Combined", "Male", age, year,
          cells) : age \in AgeLabels, year \in YearSet, cells \in CellSet }
    \cup
    { Row(row[1], row[2], row[3], row[4], <<"1", "-", "4">>, 2020,
          [COUNT |-> Num(1), POPULATION |-> Num(4), RATE |-> Num(25000 * SCALE)]) :
        row \in { <<"Incidence", "All Races", "All Cancer Sites Combined", "Female">>,
                  <<"Incidence", "All Races", "Colon and Rectum", "Male">>,
                  <<"Mortality", "All Races", "All Cancer Sites Combined", "Male">>,
                  <<"Incidence", "White", "All Cancer Sites Combined", "Male">> } }
Tables == UNION {[1..n -> RowSet] : n \in 0..MaxRows}

PrepareAllSitesAgeData ==
    /\ Idle
    /\ \E by_age \in Tables :
        /\ call' = [op |-> "prepare_all_sites_age_data", by_age |-> by_age]
        /\ ret' = Returned(prepare_all_sites_age_data(by_age))
    /\ UNCHANGED <<p, M, divisions_per_year, C, r, ctor, scipy, predicted>>

GetSiteAgeIncidence ==
    /\ Idle
    /\ \E by_age \in Tables, site_name \in SiteSet, target_year \in YearSet :
        /\ call' = [op |-> "get_site_age_incidence", by_age |-> by_age,
                    site_name |-> site_name, target_year |-> target_year]
        /\ ret' = Returned(get_site_age_incidence(by_age, site_name, target_year))
    /\ UNCHANGED <<p, M, divisions_per_year, C, r, ctor, scipy, predicted>>

\* prepare_age_incidence_data on a table prepare_all_sites_age_data returned.
PrepareAgeIncidenceData ==
    /\ Idle
    /\ \E by_age \in Tables, target_year \in YearSet :
        /\ call' = [op |-> "prepare_age_incidence_data",
                    all_sites_age_inc |-> prepare_all_sites_age_data(by_age),
                    target_year |-> target_year]
        /\ ret' = Returned(prepare_age_incidence_data(
                               prepare_all_sites_age_data(by_age), target_year))
    /\ UNCHANGED <<p, M, divisions_per_year, C, r, ctor, scipy, predicted>>

\* The table preparation on its own, and the two curve extractors.
NextTable == PrepareAllSitesAgeData \/ Return

SpecTable == InitParse /\ [][NextTable]_vars

NextCurve == GetSiteAgeIncidence \/ PrepareAgeIncidenceData \/ Return

SpecCurve == InitParse /\ [][NextCurve]_vars

----------------------------------------------------------------------------
(* Properties of the curve extractors, checked under SpecCurve.            *)

IsSiteCurve ==
    /\ call.op = "get_site_age_incidence"
    /\ Len(SiteRows(call.by_age, call.site_name)) > 0
IsYearCurve == call.op = "prepare_age_incidence_data"
IsCurve == IsSiteCurve \/ IsYearCurve

\* The rows the curve of the call in progress is extracted from.
CurveInput ==
    IF IsSiteCurve THEN SiteRows(call.by_age, call.site_name)
    ELSE call.all_sites_age_inc

CurveAges == ret.val.ages.values
CurveRates == ret.val.rates.values

SameLength == Len(CurveAges) = Len(CurveRates)
NoNaN ==
    /\ \A i \in 1..Len(CurveAges) : ~CurveAges[i].nan
    /\ \A i \in 1..Len(CurveRates) : ~CurveRates[i].nan
StrictlyIncreasing ==
    \A i \in 1..(Len(CurveAges) - 1) : CurveAges[i].num < CurveAges[i + 1].num
FromTargetYear ==
    \A i \in 1..Len(CurveAges) :
        \E j \in 1..Len(CurveInput) :
            /\ CurveInput[j].YEAR = call.target_year
            /\ age_group_to_mid(CurveInput[j].AGE).val = CurveAges[i]

\* C12 as stated: the (ages, rates) pair of get_site_age_incidence (for a site
\* with rows) and of prepare_age_incidence_data has equal lengths, no NaN in
\* either sequence, strictly increasing ages, and only entries of rows of the
\* target year.
C12_CurveInvariant ==
    IsCurve => SameLength /\ NoNaN /\ StrictlyIncreasing /\ FromTargetYear

----------------------------------------------------------------------------
(* _binomial_probability step by step (src/src/models.py): its branches,   *)
(* and the manual Poisson recurrence one iteration at a time.  The local   *)
(* variables of the loop are fields of the call in progress.               *)

\* Variant: the factorial is not updated.
LoopBodyStaleFactorial(loc) ==
    LET lp == IF loc.i > 0 THEN MulFx(loc.lambda_power, loc.lambda_poisson)
              ELSE loc.lambda_power
    IN  [loc EXCEPT !.lambda_power = lp,
                    !.prob_sum = loc.prob_sum
                                   + (MulFx(loc.exp_neg_lambda, lp) \div loc.factorial),
                    !.i = loc.i + 1]

\* One iteration of `for i in range(k)`:
\*   if i > 0: factorial *= i; lambda_power *= lambda_poisson
\*   prob_sum += exp_neg_lambda * lambda_power / factorial
LoopBody(loc) ==
    LET f  == IF loc.i > 0 THEN loc.factorial * loc.i ELSE loc.factorial
        lp == IF loc.i > 0 THEN MulFx(loc.lambda_power, loc.lambda_poisson)
              ELSE loc.lambda_power
    IN  [loc EXCEPT !.factorial = f, !.lambda_power = lp,
                    !.prob_sum = loc.prob_sum + (MulFx(loc.exp_neg_lambda, lp) \div f),
                    !.i = loc.i + 1]

\* The locals when _binomial_probability(n, k, pp) has run up to its loop, or
\* to a return statement before it (pc = "done" with the value in result).
ApproxEntry(n, k, pp) ==
    LET lambda_poisson == MulFx(n, pp)
        early(v) == [op |-> "_binomial_probability", n |-> n, k |-> k, pp |-> pp,
                     pc |-> "done", lambda_poisson |-> lambda_poisson, i |-> 0,
                     exp_neg_lambda |-> 0, factorial |-> 1, lambda_power |-> One,
                     prob_sum |-> 0, result |-> v]
    IN  IF k = 1 THEN early(One - PowFx(One - pp, n))
        ELSE IF k * SCALE > n THEN early(0)
        ELSE IF LambdaNegligible(lambda_poisson) THEN early(0)
        ELSE IF scipy THEN early(One - ScipyPoissonCdf(k - 1, lambda_poisson))
        ELSE [early(0) EXCEPT !.pc = "loop",
                              !.exp_neg_lambda = ExpNeg(lambda_poisson)]

\* The probabilities the approximator is called with: those of the model
\* object, and 0 (p_eff of a repair efficiency r = 1).
ApproxPSet == PSet \cup {0}

InitApprox ==
    /\ p = SCALE \div 2
    /\ M = 1
    /\ divisions_per_year = SCALE \div 2
    /\ C = 1
    /\ r = 0
    /\ ctor = [p |-> p, M |-> M, divisions_per_year |-> divisions_per_year,
               C |-> C, r |-> r]
    /\ scipy \in BOOLEAN
    /\ predicted = FALSE
    /\ call = NoCall
    /\ ret = Returned(<<>>)

\* The call, up to the loop or to an earlier return.
ApproxCall ==
    /\ Idle
    /\ \E n \in NSet, k \in CSet, pp \in ApproxPSet :
        /\ call' = ApproxEntry(n, k, pp)
        /\ ret' = IF ApproxEntry(n, k, pp).pc = "done"
                  THEN Returned(ApproxEntry(n, k, pp).result) ELSE ret
    /\ UNCHANGED <<p, M, divisions_per_year, C, r, ctor, scipy, predicted>>

\* One iteration of the loop.
ApproxLoop ==
    /\ call.op = "_binomial_probability" /\ call.pc = "loop"
    /\ call.i < call.k
    /\ call' = LoopBody(call)
    /\ UNCHANGED <<p, M, divisions_per_year, C, r, ctor, scipy, predicted, ret>>

\* range(k) is exhausted: return 1 - prob_sum
ApproxLoopExit ==
    /\ call.op = "_binomial_probability" /\ call.pc = "loop"
    /\ call.i >= call.k
    /\ call' = [call EXCEPT !.pc = "done", !.result = One - call.prob_sum]
    /\ ret' = Returned(One - call.prob_sum)
    /\ UNCHANGED <<p, M, divisions_per_year, C, r, ctor, scipy, predicted>>

\* The caller takes the result of a finished call.
ApproxReturn ==
    /\ call.op = "_binomial_probability" /\ call.pc = "done"
    /\ Return

NextApprox == ApproxCall \/ ApproxLoop \/ ApproxLoopExit \/ ApproxReturn

SpecApprox == InitApprox /\ [][NextApprox]_vars

----------------------------------------------------------------------------
(* Properties of the Poisson approximation, checked under SpecApprox.      *)

RECURSIVE Factorial(_)
Factorial(i) == IF i = 0 THEN 1 ELSE i * Factorial(i - 1)

\* e^-lambda * lambda^i / i!
PoissonTerm(i, lam) == MulFx(ExpNeg(lam), IntPow(lam, i)) \div Factorial(i)

\* sum_{i=0}^{j-1} e^-lambda * lambda^i / i!
RECURSIVE PoissonSum(_, _)
PoissonSum(j, lam) ==
    IF j = 0 THEN 0 ELSE PoissonSum(j - 1, lam) + PoissonTerm(j - 1, lam)

InApprox == call.op = "_binomial_probability"
MultiHit == InApprox /\ call.k > 1 /\ call.n >= call.k * SCALE
Near(x, y) == x - y <= 5 /\ y - x <= 5

\* C13: for k > 1 and n >= k, with lambda = n * p: the result is 0 when
\* lambda is below the threshold, and otherwise 1 - sum_{i<k} e^-lambda *
\* lambda^i / i!; the manual loop has accumulated exactly the terms
\* e^-lambda * lambda^j / j! for j < i after i iterations, and its result and
\* the library's agree on the Poisson tail (up to the rounding of the grid).
C13_PoissonTail ==
    MultiHit =>
        /\ call.lambda_poisson = MulFx(call.n, call.pp)
        /\ call.pc = "loop" =>
              /\ ~scipy /\ call.i <= call.k
              /\ call.prob_sum = PoissonSum(call.i, call.lambda_poisson)
        /\ call.pc = "done" =>
              /\ ret = Returned(call.result)
              /\ ret = Returned(binomial_probability(call.n, call.k, call.pp))
              /\ LambdaNegligible(call.lambda_poisson) => call.result = 0
              /\ ~LambdaNegligible(call.lambda_poisson) =>
                    /\ Near(call.result, One - PoissonSum(call.k, call.lambda_poisson))
                    /\ ~scipy =>
                          call.result = One - PoissonSum(call.k, call.lambda_poisson)
                    /\ Near(call.result,
                            One - ScipyPoissonCdf(call.k - 1, call.lambda_poisson))
                    /\ Near(call.result,
                            One - ManualPoissonCdf(call.k, call.lambda_poisson))

\* The manual loop has finished three iterations for lambda = 1.25 and
\* returned a tail strictly between 0 and 1.
C13_Witness ==
    /\ MultiHit /\ ~scipy
    /\ call.pc = "done" /\ call.k = 3 /\ call.i = 3
    /\ call.lambda_poisson = (5 * SCALE) \div 4
    /\ ret.val > 0 /\ ret.val < One

----------------------------------------------------------------------------
(* Properties of the table preparation, checked under SpecTable.           *)

IsPrepared == call.op = "prepare_all_sites_age_data"

\* C14 as stated: every row prepare_all_sites_age_data returns has an
\* AGE_START that is a real age (neither the sentinel -1 of "All Ages" nor
\* NaN), also for labels with surrounding whitespace, and has EVENT_TYPE
\* "Incidence", RACE "All Races" and SITE "All Cancer Sites Combined".
C14_NoSentinelRows ==
    IsPrepared =>
        \A i \in 1..Len(ret.val) :
            /\ ~ret.val[i].AGE_START.nan
            /\ ret.val[i].AGE_START # Num(-One)
            /\ ret.val[i].EVENT_TYPE = "Incidence"
            /\ ret.val[i].RACE = "All Races"
            /\ ret.val[i].SITE = "All Cancer Sites Combined"

====
